---- MODULE Spec2Model ----
(***************************************************************************)
(* A model of the Movie render loop (play / pause / stop / seek / record /  *)
(* refresh, the frame-scheduled tick and the MediaRecorder callbacks).      *)
(*                                                                          *)
(* Time.  Timestamps (performance.now(), the requestAnimationFrame          *)
(* argument) are milliseconds.  currentTime and _lastPlayedOffset are       *)
(* seconds in the program; here they are held in fixed point, as an integer *)
(* number of thousandths of a second, so that                               *)
(*     _lastPlayedOffset + (timestamp - _lastPlayed) / 1000                 *)
(* is exact.  A layer's startTime and duration are whole seconds and are    *)
(* converted with Seconds() wherever the program compares them with         *)
(* currentTime.                                                             *)
(***************************************************************************)
EXTENDS Integers, Sequences, FiniteSets

\* ------------------------------------------------------------------ bounds
MaxClock     == 1   \* the clock stops after this many seconds
MaxCallbacks == 2   \* callbacks the frame scheduler holds at a time
MaxRecords   == 1   \* record() calls that get past the guard

\* ------------------------------------------------------- program constants
MsPerSecond == 1000

\* The clock advances in steps of a second.
ClockStep == MsPerSecond
ClockEnd  == MaxClock * ClockStep

\* x seconds in the fixed-point unit of currentTime
Seconds(x) == x * MsPerSecond

\* The layers given to addLayer(), in the order of the calls: the window
\* [startTime, startTime+duration) in seconds, whether the layer has a media
\* element (layer.media) and whether it has a canvas of its own (layer.canvas).
LayerList ==
  << [startTime |-> 0, duration |-> 1, media |-> FALSE, visual |-> TRUE,
       throws |-> FALSE],
     [startTime |-> 1, duration |-> 1, media |-> TRUE, visual |-> TRUE,
       throws |-> FALSE] >>

\* The positions a caller seeks to (fixed point).
SeekTimes == { 0, Seconds(1) }

VARIABLES
  repeat,            \* options.repeat
  paused,            \* _paused
  ended,             \* _ended
  currentTime,       \* _currentTime, fixed point
  lastPlayed,        \* _lastPlayed, ms
  lastPlayedOffset,  \* _lastPlayedOffset, fixed point
  layers,            \* _layersBack: sequence of layers
  active,            \* layer.active, by layer index
  effects,           \* this.effects: the effects, each known by an id
  canvas,            \* this.canvas: 0 is the canvas given to the constructor,
                     \* k > 0 the temporary canvas created by the k-th record()
  mediaRecorder,     \* _mediaRecorder: 0 is null, k > 0 the k-th MediaRecorder
  encoders,          \* the MediaRecorders created so far, with the closure
                     \* of the record() call that created each
  pending,           \* callbacks requestAnimationFrame holds for the next frame
  firing,            \* callbacks of the frame being run, not yet called
  now,               \* performance.now(), ms
  events,            \* what the last operation published and drew, in order
  error,             \* what the last operation threw, or "none"
  lastOp,            \* the last operation
  keyframe,          \* a KeyFrame: its samples (this.value) and
                     \* interpolationKeys
  valCache,          \* util.js valCache: movie -> element -> path -> value
  result             \* the last call of util.js and what it returned or threw

vars == << repeat, paused, ended, currentTime, lastPlayed, lastPlayedOffset,
           layers, active, effects, canvas, mediaRecorder, encoders, pending, firing,
           now, events, error, lastOp, keyframe, valCache, result >>

\* The state of util.js
utilVars == << keyframe, valCache, result >>

\* The state of the movie
movieVars == << repeat, paused, ended, currentTime, lastPlayed,
                lastPlayedOffset, layers, active, effects, canvas,
                mediaRecorder, encoders, pending, firing, now, events, error,
                lastOp >>

\* The movie and its collaborators as one value; the operators below are the
\* methods, from a state to the state they leave.
Movie ==
  [ paused |-> paused, ended |-> ended, currentTime |-> currentTime,
    lastPlayed |-> lastPlayed, lastPlayedOffset |-> lastPlayedOffset,
    layers |-> layers, active |-> active, effects |-> effects,
    canvas |-> canvas, mediaRecorder |-> mediaRecorder, encoders |-> encoders,
    pending |-> pending, events |-> <<>>, error |-> "none" ]

\* The fields of the movie as an operation leaves them; firing, now, repeat
\* and lastOp are set by the action.
Assign(s) ==
  /\ paused' = s.paused
  /\ ended' = s.ended
  /\ currentTime' = s.currentTime
  /\ lastPlayed' = s.lastPlayed
  /\ lastPlayedOffset' = s.lastPlayedOffset
  /\ layers' = s.layers
  /\ active' = s.active
  /\ effects' = s.effects
  /\ canvas' = s.canvas
  /\ mediaRecorder' = s.mediaRecorder
  /\ encoders' = s.encoders
  /\ pending' = s.pending
  /\ events' = s.events
  /\ error' = s.error

\* The state an operation of the movie leaves: it calls nothing of util.js.
Commit(s) == Assign(s) /\ UNCHANGED utilVars

\* What is published or drawn: its name and the layer's index, 0 for the
\* movie itself.
Ev(type) == <<type, 0>>

Publish(s, e) == [s EXCEPT !.events = Append(@, e)]

\* "timeupdate" is logged with the currentTime its subscribers read.
TimeUpdate(s) == Publish(s, <<"timeupdate", s.currentTime>>)

\* get recording
Recording(s) == s.mediaRecorder # 0

RECURSIVE MaxEnd(_, _)
MaxEnd(ls, i) ==
  IF i = 0 THEN 0
  ELSE LET e == ls[i].startTime + ls[i].duration
           r == MaxEnd(ls, i - 1)
       IN IF e > r THEN e ELSE r

\* get duration (seconds)
Duration(ls) == MaxEnd(ls, Len(ls))

\* ------------------------------------------------------------------ pause
\* pause() telling only the active layers to stop
PauseFnActiveOnly(s) ==
  LET n == Len(s.layers)
      stops == SelectSeq([i \in 1..n |-> <<"stop", i>>],
                         LAMBDA e : s.active[e[2]])
  IN [s EXCEPT !.paused = TRUE,
               !.events = @ \o stops,
               !.active = [i \in 1..n |-> FALSE]]

\* pause() telling the first layer only
PauseFnFirstOnly(s) ==
  LET n == Len(s.layers)
  IN [s EXCEPT !.paused = TRUE,
               !.events = @ \o [i \in 1..(IF n > 0 THEN 1 ELSE 0) |-> <<"stop", i>>],
               !.active = [i \in 1..n |-> FALSE]]

\* pause(): every layer is told to stop and marked inactive.
PauseFn(s) ==
  LET n == Len(s.layers)
  IN [s EXCEPT !.paused = TRUE,
               !.events = @ \o [i \in 1..n |-> <<"stop", i>>],
               !.active = [i \in 1..n |-> FALSE]]

\* ----------------------------------------------------------------- _render
\* the guard of line 157 reading _ended in place of _paused
SkipsTickWhenEnded(s, instant) == s.ended /\ ~instant

\* line 157: a tick of a paused movie does nothing, unless it is instant
SkipsTick(s, instant) == s.paused /\ ~instant

\* _updateCurrentTime adding the time elapsed to the current time
UpdateCurrentTimeAccumulating(s, instant, timestamp) ==
  IF instant THEN s
  ELSE LET sinceLastPlayed == Seconds(timestamp - s.lastPlayed) \div MsPerSecond
       IN TimeUpdate([s EXCEPT !.currentTime = s.currentTime + sinceLastPlayed])

\* _updateCurrentTime
UpdateCurrentTime(s, instant, timestamp) ==
  IF instant THEN s
  ELSE LET sinceLastPlayed == Seconds(timestamp - s.lastPlayed) \div MsPerSecond
       IN TimeUpdate([s EXCEPT !.currentTime = s.lastPlayedOffset + sinceLastPlayed])

\* line 162 with > in place of >=
TimelineEndedStrict(t, end) == t > Seconds(end)

\* line 162: ended = this.currentTime >= end
TimelineEnded(t, end) == t >= Seconds(end)

\* line 169 without its test of this.recording
StopsAtEndUnlessRepeat(s) == ~repeat

\* line 169: the movie stops at the end of the timeline
StopsAtEnd(s) == ~repeat \/ Recording(s)

\* The constructor's subscriber to "end" (lines 31-36).  requestData() of a
\* MediaRecorder that is not recording throws InvalidStateError, which leaves
\* _publish and _render; otherwise stop() queues the encoder's stop event.
EndSubscriberThrows(s) ==
  Recording(s) /\ s.encoders[s.mediaRecorder].state # "recording"

EndSubscriber(s) ==
  IF Recording(s)
  THEN [s EXCEPT !.encoders[s.mediaRecorder].state = "stopping"]
  ELSE s

\* lines 163-174
RenderEnd(s, tnow) ==
  LET s1 == Publish(s, Ev("end"))
  IN IF EndSubscriberThrows(s1)
     THEN [s1 EXCEPT !.error = "InvalidStateError"]
     ELSE LET s2 == EndSubscriber(s1)
              s3 == TimeUpdate([s2 EXCEPT !.currentTime = 0])
              s4 == [s3 EXCEPT !.lastPlayed = tnow, !.lastPlayedOffset = 0]
          IN IF StopsAtEnd(s4)
             THEN PauseFn([s4 EXCEPT !.ended = TRUE])
             ELSE s4

\* _renderBackground: this.background is never falsy (line 27)
RenderBackground(s) ==
  [s EXCEPT !.events = @ \o << Ev("clearRect"), Ev("fillRect") >>]

\* line 213 with > in place of >=
InWindowClosed(t, layer) ==
  ~(t < Seconds(layer.startTime)
      \/ t > Seconds(layer.startTime + layer.duration))

\* line 213
InWindow(t, layer) ==
  ~(t < Seconds(layer.startTime)
      \/ t >= Seconds(layer.startTime + layer.duration))

\* An error thrown by a layer's _render() or by an effect is caught nowhere
\* in the movie, here as if the movie caught it and went on:
ThrownIgnored(s) == FALSE

\* An error thrown by a layer's _render() or by an effect is caught nowhere
\* in the movie: it ends _renderLayers or _applyEffects, and _render.
Thrown(s) == s.error # "none"

\* One pass of the loop of _renderLayers, for layer i.  layer.throws is
\* whether the layer's _render() throws.
RenderLayer(s, instant, i) ==
  LET layer == s.layers[i]
  IN IF ~InWindow(s.currentTime, layer)
     THEN IF s.active[i] /\ ~instant
          THEN [Publish(s, <<"stop", i>>) EXCEPT !.active[i] = FALSE]
          ELSE s
     ELSE LET s1 == IF ~s.active[i] /\ ~instant
                    THEN [Publish(s, <<"start", i>>) EXCEPT !.active[i] = TRUE]
                    ELSE s
              s2 == Publish(s1, <<"render", i>>)
          IN IF layer.throws THEN [s2 EXCEPT !.error = "LayerError"]
             ELSE IF layer.visual THEN Publish(s2, <<"drawImage", i>>)
             ELSE s2

\* the loop of _renderLayers running from the last layer to the first
RECURSIVE RenderLayersDescending(_, _, _)
RenderLayersDescending(s, instant, i) ==
  IF i = 0 \/ Thrown(s) THEN s
  ELSE RenderLayersDescending(RenderLayer(s, instant, i), instant, i - 1)

RECURSIVE RenderLayersTo(_, _, _)
RenderLayersTo(s, instant, i) ==
  IF i = 0 THEN s
  ELSE LET before == RenderLayersTo(s, instant, i - 1)
       IN IF Thrown(before) THEN before ELSE RenderLayer(before, instant, i)

\* _renderLayers, the state it leaves
RenderLayers(s, instant) == RenderLayersTo(s, instant, Len(s.layers))

\* _renderLayers, its result: every media of a layer in its window has a
\* frame (readyState >= 2).  loaded is what the media elements answer.
InstantFullyLoaded(s, loaded) ==
  \A i \in 1..Len(s.layers) :
     (InWindow(s.currentTime, s.layers[i]) /\ s.layers[i].media) => loaded

\* The effects that throw when they are called.
ThrowingEffects == { 3 }

\* effect(this), for the effect at position j
ApplyEffect(s, j) ==
  LET s1 == Publish(s, <<"effect", s.effects[j]>>)
  IN IF s.effects[j] \in ThrowingEffects
     THEN [s1 EXCEPT !.error = "EffectError"]
     ELSE s1

RECURSIVE ApplyEffectsTo(_, _)
ApplyEffectsTo(s, j) ==
  IF j = 0 THEN s
  ELSE LET before == ApplyEffectsTo(s, j - 1)
       IN IF Thrown(before) THEN before ELSE ApplyEffect(before, j)

\* _applyEffects: each effect is called with the movie, in list order
ApplyEffects(s) == ApplyEffectsTo(s, Len(s.effects))

\* line 183
Reschedules(instant, instantFullyLoaded) ==
  ~instant \/ (instant /\ ~instantFullyLoaded)

\* window.requestAnimationFrame(timestamp => this._render(instant, timestamp))
RequestAnimationFrame(s, instant) ==
  IF instant
  THEN [s EXCEPT !.pending.instant = @ + 1]
  ELSE [s EXCEPT !.pending.tick = @ + 1]

\* _render(instant, timestamp); tnow is performance.now() during the call
Render(s, instant, timestamp, tnow, loaded) ==
  IF SkipsTick(s, instant) THEN s
  ELSE LET s1 == UpdateCurrentTime(s, instant, timestamp)
       IN IF TimelineEnded(s1.currentTime, Duration(s1.layers))
          THEN RenderEnd(s1, tnow)
          ELSE LET s2 == RenderLayers(RenderBackground(s1), instant)
                   s3 == IF Thrown(s2) THEN s2 ELSE ApplyEffects(s2)
               IN IF Thrown(s3) THEN s3
                  ELSE IF Reschedules(instant, InstantFullyLoaded(s2, loaded))
                  THEN RequestAnimationFrame(s3, instant)
                  ELSE s3

\* refresh()
RefreshFn(s, tnow, loaded) == Render(s, TRUE, tnow, tnow, loaded)

\* play()
PlayFn(s, tnow, loaded) ==
  Render([s EXCEPT !.paused = FALSE,
                   !.lastPlayed = tnow,
                   !.lastPlayedOffset = s.currentTime],
         FALSE, tnow, tnow, loaded)

\* set currentTime(time) without its refresh()
SetCurrentTimeOnly(s, time, tnow, loaded) ==
  Publish([s EXCEPT !.currentTime = time], Ev("seek"))

\* set currentTime(time)
SetCurrentTime(s, time, tnow, loaded) ==
  RefreshFn(Publish([s EXCEPT !.currentTime = time], Ev("seek")), tnow, loaded)

\* stop()
StopFn(s, tnow, loaded) == SetCurrentTime(PauseFn(s), 0, tnow, loaded)

\* addLayer(layer): the proxy publishes "attach" on the layer and stores it;
\* a layer that was never started is not active.
AddLayerFn(s, layer) ==
  LET i == Len(s.layers) + 1
  IN [Publish(s, <<"attach", i>>) EXCEPT !.layers = Append(@, layer),
                                         !.active = Append(@, FALSE)]

\* _publishToLayers
PublishToLayers(s, type) ==
  [s EXCEPT !.events = @ \o [i \in 1..Len(s.layers) |-> <<type, i>>]]

\* ----------------------------------------------------------------- record
\* the guard of line 85 refusing only a movie that is recording
RecordGuardRecording(s) == Recording(s)

\* line 85
RecordGuard(s) == ~s.paused

\* record(framerate, options)
RecordFn(s, tnow, loaded) ==
  IF RecordGuard(s)
  THEN [s EXCEPT !.error = "Cannot record movie while playing"]
  ELSE LET k  == Len(s.encoders) + 1
           s1 == [s EXCEPT !.paused = FALSE, !.ended = FALSE]
           s2 == [s1 EXCEPT !.canvas = k,
                            !.encoders = Append(@, [state |-> "recording",
                                                    canvasCache |-> s.canvas,
                                                    promise |-> "pending",
                                                    resolveCalls |-> 0])]
           s3 == PublishToLayers(s2, "audiodestinationupdate")
           s4 == [s3 EXCEPT !.mediaRecorder = k]
       IN PlayFn(s4, tnow, loaded)

\* A promise is settled by the first resolve or reject only.
Settle(promise, how) == IF promise = "pending" THEN how ELSE promise

\* mediaRecorder.onstop of the k-th record() (lines 109-120)
OnStop(s, k) ==
  LET s1 == [s EXCEPT !.ended = TRUE,
                      !.encoders[k].promise = Settle(@, "resolved"),
                      !.encoders[k].resolveCalls = @ + 1,
                      !.encoders[k].state = "inactive"]
      s2 == [s1 EXCEPT !.canvas = s.encoders[k].canvasCache]
      s3 == PublishToLayers(s2, "audiodestinationupdate")
  IN [s3 EXCEPT !.mediaRecorder = 0]

\* mediaRecorder.onerror of the k-th record() (line 121): reject
OnError(s, k) ==
  [s EXCEPT !.encoders[k].promise = Settle(@, "rejected"),
            !.encoders[k].state = "errored"]

\* ----------------------------------------------------------------- util.js
\* Values.  A JavaScript value is known by its typeof (kind), and by its
\* number (fixed point, in thousandths), its string, or its own enumerable
\* properties (fields, each a number or a string) and its prototype.
Unit == 1000

NoFields == [k \in {} |-> 0]

Num(n) == [kind |-> "number", n |-> n, s |-> "", proto |-> 0, fields |-> NoFields]

Str(s) == [kind |-> "string", n |-> 0, s |-> s, proto |-> 0, fields |-> NoFields]

Obj(proto, fields) ==
  [kind |-> "object", n |-> 0, s |-> "", proto |-> proto, fields |-> fields]

Undefined ==
  [kind |-> "undefined", n |-> 0, s |-> "", proto |-> 0, fields |-> NoFields]

TypeOf(v) == v.kind

\* What a call does: it returns a value or throws an Error with a message.
Return(v) == [error |-> "none", value |-> v]

Throw(message) == [error |-> message, value |-> Undefined]

\* The objectKeys argument: undefined, or an array of keys.
NoKeys == [defined |-> FALSE, keys |-> {}]

Keys(ks) == [defined |-> TRUE, keys |-> ks]

\* lines 208 and 237: const keys = Object.keys(x1) || objectKeys.  An array is
\* truthy, so keys is Object.keys(x1) whatever objectKeys is.
InterpKeys(x1, objectKeys) == DOMAIN x1.fields

\* The keys of the result: those of keys that both operands own (212, 241)
CommonKeys(x1, x2, objectKeys) ==
  { k \in InterpKeys(x1, objectKeys) :
       k \in DOMAIN x1.fields /\ k \in DOMAIN x2.fields }

\* The interpolation of two objects, given that of their common properties
InterpObject(x1, x2, sub) ==
  IF \E k \in DOMAIN sub : sub[k].error # "none"
  THEN Throw("Type mismatch")
  ELSE Return(Obj(x1.proto, [k \in DOMAIN sub |-> sub[k].value]))

\* linearInterp(x1, x2, t, objectKeys), with t = p / d
RECURSIVE LinearInterp(_, _, _, _, _)
LinearInterp(x1, x2, p, d, objectKeys) ==
  IF TypeOf(x1) # TypeOf(x2) THEN Throw("Type mismatch")
  ELSE IF TypeOf(x1) # "number" /\ TypeOf(x1) # "object" THEN Return(x1)
  ELSE IF TypeOf(x1) = "object"
  THEN IF x1.proto # x2.proto THEN Throw("Prototype mismatch")
       ELSE InterpObject(x1, x2,
              [k \in CommonKeys(x1, x2, objectKeys) |->
                 LinearInterp(x1.fields[k], x2.fields[k], p, d, NoKeys)])
  ELSE Return(Num(((d - p) * x1.n + p * x2.n) \div d))

\* Math.cos(Math.PI / 2 * t) for t = p / d in [0, 1], in thousandths, by
\* Bhaskara's approximation 4 (1 - t^2) / (4 + t^2); exact at 0 and at 1.
Cos(p, d) == (4 * (d * d - p * p) * Unit) \div (4 * d * d + p * p)

\* cosineInterp(x1, x2, t, objectKeys), with t = p / d
RECURSIVE CosineInterp(_, _, _, _, _)
CosineInterp(x1, x2, p, d, objectKeys) ==
  IF TypeOf(x1) # TypeOf(x2) THEN Throw("Type mismatch")
  ELSE IF TypeOf(x1) # "number" /\ TypeOf(x1) # "object" THEN Return(x1)
  ELSE IF TypeOf(x1) = "object" /\ TypeOf(x2) = "object"
  THEN IF x1.proto # x2.proto THEN Throw("Prototype mismatch")
       ELSE InterpObject(x1, x2,
              [k \in CommonKeys(x1, x2, objectKeys) |->
                 CosineInterp(x1.fields[k], x2.fields[k], p, d, NoKeys)])
  ELSE Return(Num((Cos(p, d) * x1.n + (Unit - Cos(p, d)) * x2.n) \div Unit))

\* A sample's interpolate: linearInterp when it has none (line 109),
\* cosineInterp, or a function of the caller's, here (x1, x2, t) => x2.
Interpolate(which, x1, x2, p, d, objectKeys) ==
  IF which = "cosineInterp" THEN CosineInterp(x1, x2, p, d, objectKeys)
  ELSE IF which = "custom" THEN Return(x2)
  ELSE LinearInterp(x1, x2, p, d, objectKeys)

\* new KeyFrame(...value): a sample is [time, value, interpolate]
KeyFrame(value) == [value |-> value, interpolationKeys |-> NoKeys]

\* withKeys(keys)
WithKeysFn(kf, ks) == [kf EXCEPT !.interpolationKeys = Keys(ks)]

\* evaluate(time) called without a time
NoTime == -1

\* line 116 with !== in place of the second ===
ReturnsStartUnlessObjectEnd(startValue, endValue) ==
  ~(TypeOf(startValue) = "number" \/ TypeOf(endValue) # "object")

\* line 116
ReturnsStart(startValue, endValue) ==
  ~(TypeOf(startValue) = "number" \/ TypeOf(endValue) = "object")

\* lines 113-125, for the samples at i and i + 1
EvaluatePair(kf, time, i) ==
  LET start == kf.value[i]
      end == kf.value[i + 1]
  IN IF ReturnsStart(start.value, end.value) THEN Return(start.value)
     ELSE IF TypeOf(start.value) # TypeOf(end.value)
     THEN Throw("Type mismatch in keyframe values")
     ELSE Interpolate(start.interpolate, start.value, end.value,
                      time - start.time, end.time - start.time,
                      kf.interpolationKeys)

\* line 113 with <= in place of <
SurroundsClosed(startTime, endTime, time) ==
  startTime <= time /\ time <= endTime

\* line 113
Surrounds(startTime, endTime, time) == startTime <= time /\ time < endTime

\* the loop of evaluate, from the sample at i
RECURSIVE EvaluateFrom(_, _, _)
EvaluateFrom(kf, time, i) ==
  IF i + 1 <= Len(kf.value)
  THEN IF Surrounds(kf.value[i].time, kf.value[i + 1].time, time)
       THEN EvaluatePair(kf, time, i)
       ELSE EvaluateFrom(kf, time, i + 1)
  ELSE Return(kf.value[i].value)

\* evaluate(time)
Evaluate(kf, time) ==
  IF Len(kf.value) = 0 THEN Throw("Empty keyframe")
  ELSE IF time = NoTime THEN Throw("|time| is undefined or null")
  ELSE IF time < kf.value[1].time THEN Throw("No keyframe point before |time|")
  ELSE EvaluateFrom(kf, time, 1)

\* The last call of util.js: none yet
NoResult ==
  [op |-> "none", movie |-> 0, element |-> 0, path |-> <<>>, time |-> NoTime,
   evaluated |-> FALSE, out |-> Return(Undefined)]

EmptyCache == [m \in {} |-> 0]

\* util.js before any call of it
UtilStart ==
  /\ keyframe = KeyFrame(<<>>)
  /\ valCache = EmptyCache
  /\ result = NoResult

\* ------------------------------------------------------------ construction
\* new Movie(canvas, {repeat}) at time tnow (lines 22-64)
Construct(tnow) ==
  RefreshFn([ paused |-> FALSE, ended |-> FALSE, currentTime |-> 0,
              lastPlayed |-> -1, lastPlayedOffset |-> Seconds(-1),
              layers |-> <<>>, active |-> <<>>, effects |-> <<>>,
              canvas |-> 0,
              mediaRecorder |-> 0, encoders |-> <<>>,
              pending |-> [tick |-> 0, instant |-> 0],
              events |-> <<>>, error |-> "none" ],
            tnow, TRUE)

NoCallbacks == [tick |-> 0, instant |-> 0]

\* The movie is s, at time 0, with no frame being run.
StartsAs(s) ==
  /\ now = 0
  /\ paused = s.paused
  /\ ended = s.ended
  /\ currentTime = s.currentTime
  /\ lastPlayed = s.lastPlayed
  /\ lastPlayedOffset = s.lastPlayedOffset
  /\ layers = s.layers
  /\ active = s.active
  /\ effects = s.effects
  /\ canvas = s.canvas
  /\ mediaRecorder = s.mediaRecorder
  /\ encoders = s.encoders
  /\ pending = s.pending
  /\ events = s.events
  /\ error = s.error
  /\ firing = NoCallbacks

Init ==
  /\ repeat \in BOOLEAN
  /\ StartsAs(Construct(0))
  /\ lastOp = "construct"
  /\ UtilStart

\* ----------------------------------------------------------------- actions
\* The frame scheduler holds a bounded number of callbacks; an operation that
\* may request one needs room for it.
RoomForCallback ==
  pending.tick + pending.instant + firing.tick + firing.instant < MaxCallbacks

\* What the media elements may answer during a render: whether each has a
\* frame.  Without a media layer nothing is asked.
MediaAnswers ==
  IF \E i \in 1..Len(layers) : layers[i].media THEN BOOLEAN ELSE {TRUE}

AddLayer ==
  /\ Len(layers) < Len(LayerList)
  /\ Commit(AddLayerFn(Movie, LayerList[Len(layers) + 1]))
  /\ lastOp' = "addLayer"
  /\ UNCHANGED << repeat, firing, now >>

\* play() on movie m (the movie, with this operation's log or the run's)
PlayOn(m) ==
  /\ RoomForCallback
  /\ \E loaded \in MediaAnswers : Commit(PlayFn(m, now, loaded))
  /\ lastOp' = "play"
  /\ UNCHANGED << repeat, firing, now >>

Play == PlayOn(Movie)

Pause ==
  /\ Commit(PauseFn(Movie))
  /\ lastOp' = "pause"
  /\ UNCHANGED << repeat, firing, now >>

Stop ==
  /\ RoomForCallback
  /\ \E loaded \in MediaAnswers : Commit(StopFn(Movie, now, loaded))
  /\ lastOp' = "stop"
  /\ UNCHANGED << repeat, firing, now >>

Seek ==
  /\ RoomForCallback
  /\ \E time \in SeekTimes, loaded \in MediaAnswers :
        Commit(SetCurrentTime(Movie, time, now, loaded))
  /\ lastOp' = "seek"
  /\ UNCHANGED << repeat, firing, now >>

Refresh ==
  /\ RoomForCallback
  /\ \E loaded \in MediaAnswers : Commit(RefreshFn(Movie, now, loaded))
  /\ lastOp' = "refresh"
  /\ UNCHANGED << repeat, firing, now >>

\* record(), of which at most n calls get past the guard
RecordUpTo(n) ==
  /\ ~RecordGuard(Movie) => (RoomForCallback /\ Len(encoders) < n)
  /\ \E loaded \in MediaAnswers : Commit(RecordFn(Movie, now, loaded))
  /\ lastOp' = "record"
  /\ UNCHANGED << repeat, firing, now >>

Record == RecordUpTo(MaxRecords)

\* Time passes with no frame due: the frame scheduler holds no callback.
AdvanceClockTo(m, limit) ==
  /\ firing = NoCallbacks
  /\ pending = NoCallbacks
  /\ now + ClockStep <= limit
  /\ now' = now + ClockStep
  /\ Commit(m)
  /\ lastOp' = "clock"
  /\ UNCHANGED << repeat, firing >>

\* The frame scheduler starts a frame: the callbacks requested so far are
\* the frame's, and are called with the frame's timestamp; a callback
\* requested during the frame waits for the next one.
BeginFrameTo(m, limit) ==
  /\ firing = NoCallbacks
  /\ pending # NoCallbacks
  /\ \E d \in 1..2 :
        /\ now + d * ClockStep <= limit
        /\ now' = now + d * ClockStep
  /\ firing' = pending
  /\ Commit([m EXCEPT !.pending = NoCallbacks])
  /\ lastOp' = "frame"
  /\ UNCHANGED repeat

AdvanceClock == AdvanceClockTo(Movie, ClockEnd)

BeginFrame == BeginFrameTo(Movie, ClockEnd)

\* A callback of play()'s loop, on movie m: _render(false, timestamp)
TickOn(m) ==
  /\ firing.tick > 0
  /\ firing' = [firing EXCEPT !.tick = @ - 1]
  /\ \E loaded \in MediaAnswers : Commit(Render(m, FALSE, now, now, loaded))
  /\ lastOp' = "tick"
  /\ UNCHANGED << repeat, now >>

Tick == TickOn(Movie)

\* A callback of an instant render that was not fully loaded:
\* _render(true, timestamp)
InstantTick ==
  /\ firing.instant > 0
  /\ firing' = [firing EXCEPT !.instant = @ - 1]
  /\ \E loaded \in MediaAnswers : Commit(Render(Movie, TRUE, now, now, loaded))
  /\ lastOp' = "instantTick"
  /\ UNCHANGED << repeat, now >>

\* A recording ends with the encoder's stop event, after stop(), or with its
\* error event.
EncoderStop ==
  /\ \E k \in 1..Len(encoders) :
        /\ encoders[k].state = "stopping"
        /\ Commit(OnStop(Movie, k))
  /\ lastOp' = "encoderStop"
  /\ UNCHANGED << repeat, firing, now >>

\* The error event of an encoder.
EncoderError ==
  /\ \E k \in 1..Len(encoders) :
        /\ encoders[k].state = "recording"
        /\ Commit(OnError(Movie, k))
  /\ lastOp' = "encoderError"
  /\ UNCHANGED << repeat, firing, now >>

\* Every operation but record()
Playback ==
  \/ AddLayer
  \/ Play
  \/ Pause
  \/ Stop
  \/ Seek
  \/ Refresh
  \/ AdvanceClock
  \/ BeginFrame
  \/ Tick
  \/ InstantTick
  \/ EncoderStop
  \/ EncoderError

Next == Playback \/ Record

Spec == Init /\ [][Next]_vars

\* ------------------------------------------------- re-entrant recording
\* The movie with one more record() allowed past the guard than in Spec.
RecordAgain == RecordUpTo(MaxRecords + 1)

NextReentrant == Playback \/ RecordAgain

SpecReentrant == Init /\ [][NextReentrant]_vars

\* --------------------------------------------------- end-to-end playback
\* A movie of one layer spanning [0, 5), not repeating, is played once from
\* time 0 and left to the frame scheduler.  The log of the run is kept in
\* events from one operation to the next.
EndToEndLayer ==
  [startTime |-> 0, duration |-> 5, media |-> FALSE, visual |-> TRUE,
       throws |-> FALSE]

EndToEndClockEnd == ClockEnd + Seconds(EndToEndLayer.duration) + ClockStep

MovieRun == [Movie EXCEPT !.events = events]

InitEndToEnd ==
  /\ repeat = FALSE
  /\ StartsAs([AddLayerFn(Construct(0), EndToEndLayer) EXCEPT !.events = <<>>])
  /\ lastOp = "addLayer"
  /\ UtilStart

NotPlayedYet == lastOp \in {"addLayer", "clock"}

WaitToPlay == NotPlayedYet /\ AdvanceClockTo(MovieRun, ClockEnd)

PlayOnce == NotPlayedYet /\ PlayOn(MovieRun)

RunFrame == BeginFrameTo(MovieRun, EndToEndClockEnd)

RunTick == TickOn(MovieRun)

NextEndToEnd == WaitToPlay \/ PlayOnce \/ RunFrame \/ RunTick

SpecEndToEnd == InitEndToEnd /\ [][NextEndToEnd]_vars

\* ----------------------------------------------------------- timekeeping
\* The movie of one layer [0, 5) played, paused and stopped at will while
\* the clock runs to the end of its timeline and beyond.
TimedClock == AdvanceClockTo(Movie, EndToEndClockEnd)

TimedFrame == BeginFrameTo(Movie, EndToEndClockEnd)

NextTimekeeping == Play \/ Pause \/ Stop \/ TimedClock \/ TimedFrame \/ Tick

SpecTimekeeping == InitEndToEnd /\ [][NextTimekeeping]_vars

\* ----------------------------------------------------------- compositing
\* A movie of two overlapping layers, [0, 3) then [1, 4), to which effects
\* are added (movie.effects.push) in any order while it is played, paused,
\* sought and refreshed.
CompositingLayers ==
  << [startTime |-> 0, duration |-> 3, media |-> FALSE, visual |-> TRUE,
       throws |-> FALSE],
     [startTime |-> 1, duration |-> 3, media |-> FALSE, visual |-> TRUE,
       throws |-> FALSE] >>

EffectIds == { 1, 2 }

CompositingClockEnd == ClockEnd + Seconds(Duration(CompositingLayers))

InitCompositing ==
  /\ repeat = FALSE
  /\ StartsAs([AddLayerFn(AddLayerFn(Construct(0), CompositingLayers[1]),
                          CompositingLayers[2])
                 EXCEPT !.events = <<>>])
  /\ lastOp = "addLayer"
  /\ UtilStart

AddEffect ==
  /\ \E e \in EffectIds :
        /\ \A j \in 1..Len(effects) : effects[j] # e
        /\ Commit([Movie EXCEPT !.effects = Append(@, e)])
  /\ lastOp' = "addEffect"
  /\ UNCHANGED << repeat, firing, now >>

CompositingClock == AdvanceClockTo(Movie, CompositingClockEnd)

CompositingFrame == BeginFrameTo(Movie, CompositingClockEnd)

NextCompositing ==
  \/ AddEffect
  \/ Play
  \/ Pause
  \/ Seek
  \/ Refresh
  \/ CompositingClock
  \/ CompositingFrame
  \/ Tick

SpecCompositing == InitCompositing /\ [][NextCompositing]_vars

\* ------------------------------------------------------ rendering that throws
\* A movie of three layers, the second of which throws when it is rendered,
\* is played; effects are added to it, one of which throws when called.
ThrowingLayers ==
  << [startTime |-> 0, duration |-> 3, media |-> FALSE, visual |-> TRUE,
       throws |-> FALSE],
     [startTime |-> 2, duration |-> 1, media |-> FALSE, visual |-> TRUE,
       throws |-> TRUE],
     [startTime |-> 0, duration |-> 3, media |-> FALSE, visual |-> TRUE,
       throws |-> FALSE] >>

ThrowingClockEnd == ClockEnd + Seconds(Duration(ThrowingLayers))

InitThrowing ==
  /\ repeat = FALSE
  /\ StartsAs([AddLayerFn(AddLayerFn(AddLayerFn(Construct(0),
                                                ThrowingLayers[1]),
                                     ThrowingLayers[2]),
                          ThrowingLayers[3])
                 EXCEPT !.events = <<>>])
  /\ lastOp = "addLayer"
  /\ UtilStart

AddThrowingEffect ==
  /\ \E e \in ThrowingEffects :
        /\ \A j \in 1..Len(effects) : effects[j] # e
        /\ Commit([Movie EXCEPT !.effects = Append(@, e)])
  /\ lastOp' = "addEffect"
  /\ UNCHANGED << repeat, firing, now >>

ThrowingClock == AdvanceClockTo(Movie, ThrowingClockEnd)

ThrowingFrame == BeginFrameTo(Movie, ThrowingClockEnd)

NextThrowing ==
  \/ AddEffect
  \/ AddThrowingEffect
  \/ Play
  \/ Pause
  \/ Refresh
  \/ ThrowingClock
  \/ ThrowingFrame
  \/ Tick

SpecThrowing == InitThrowing /\ [][NextThrowing]_vars

\* ------------------------------------------------- playback, never recorded
\* Every operation of the movie but record(): no encoder is ever created.
NextUnrecorded ==
  \/ AddLayer
  \/ Play
  \/ Pause
  \/ Stop
  \/ Seek
  \/ Refresh
  \/ AdvanceClock
  \/ BeginFrame
  \/ Tick
  \/ InstantTick

SpecUnrecorded == Init /\ [][NextUnrecorded]_vars

\* -------------------------------------------------------------- keyframes
\* A KeyFrame is constructed from any samples, is given interpolationKeys or
\* not, and is evaluated at any time.  The movie is left as constructed.
MaxSamples == 2

SampleTimes == 0..2

EvaluateTimes == (0..3) \cup { NoTime }

SampleValues ==
  { Num(Unit), Num(3 * Unit), Str("a"), Str("b"),
    Obj(0, [k \in {"x", "y"} |-> IF k = "x" THEN Num(Unit) ELSE Num(2 * Unit)]),
    Obj(0, [k \in {"x"} |-> Num(3 * Unit)]) }

Interpolators == { "default", "cosineInterp", "custom" }

Samples ==
  [time : SampleTimes, value : SampleValues, interpolate : Interpolators]

RECURSIVE SamplesUpTo(_)
SamplesUpTo(n) ==
  IF n = 0 THEN { <<>> }
  ELSE LET shorter == SamplesUpTo(n - 1)
       IN shorter \cup { Append(v, s) : v \in shorter, s \in Samples }

MovieConstructed ==
  /\ repeat = FALSE
  /\ StartsAs(Construct(0))
  /\ lastOp = "construct"

InitKeyFrame ==
  /\ MovieConstructed
  /\ keyframe \in { KeyFrame(v) : v \in SamplesUpTo(MaxSamples) }
  /\ valCache = EmptyCache
  /\ result = NoResult

WithKeys ==
  /\ result.op = "none"
  /\ ~keyframe.interpolationKeys.defined
  /\ keyframe' = WithKeysFn(keyframe, {"x"})
  /\ UNCHANGED << valCache, result, movieVars >>

EvaluateAt ==
  /\ result.op = "none"
  /\ \E time \in EvaluateTimes :
        result' = [NoResult EXCEPT !.op = "evaluate",
                                   !.time = time,
                                   !.out = Evaluate(keyframe, time)]
  /\ UNCHANGED << keyframe, valCache, movieVars >>

NextKeyFrame == WithKeys \/ EvaluateAt

SpecKeyFrame == InitKeyFrame /\ [][NextKeyFrame]_vars

\* ------------------------------------------------------------ val, valCache
\* A path is held as its parts: << "border", "width" >> is "border.width".
\* cacheValue(element, path, value): the cache it leaves
CacheValue(cache, movie, element, path, value) ==
  LET movieCache == IF movie \in DOMAIN cache THEN cache[movie]
                    ELSE [e \in {} |-> 0]
      elementCache == IF element \in DOMAIN movieCache THEN movieCache[element]
                      ELSE [q \in {} |-> 0]
      elementCache1 == [q \in DOMAIN elementCache \cup {path} |->
                          IF q = path THEN value ELSE elementCache[q]]
      movieCache1 == [e \in DOMAIN movieCache \cup {element} |->
                        IF e = element THEN elementCache1 ELSE movieCache[e]]
  IN [m \in DOMAIN cache \cup {movie} |->
        IF m = movie THEN movieCache1 ELSE cache[m]]

\* hasCachedValue without its test of the path
HasCachedValueOfElement(cache, movie, element, path) ==
  /\ movie \in DOMAIN cache
  /\ element \in DOMAIN cache[movie]

\* hasCachedValue(element, path)
HasCachedValue(cache, movie, element, path) ==
  /\ movie \in DOMAIN cache
  /\ element \in DOMAIN cache[movie]
  /\ path \in DOMAIN cache[movie][element]

\* getCachedValue(element, path); a property an object has not is undefined
GetCachedValue(cache, movie, element, path) ==
  IF path \in DOMAIN cache[movie][element]
  THEN cache[movie][element][path]
  ELSE Undefined

\* clearCachedValues(movie)
ClearCachedValuesFn(cache, movie) ==
  [m \in DOMAIN cache \ {movie} |-> cache[m]]

\* The elements val is called on.  Elements 1 and 2 belong to movie 1 and
\* element 3 to movie 2.  A property is a KeyFrame, a function of (element,
\* time), here the time, or a plain value; element 1 filters its x, doubling
\* it (propertyFilters).
ElementIds == 1..3

MovieOf(element) == IF element = 3 THEN 2 ELSE 1

AnimatedX ==
  KeyFrame(<< [time |-> 0, value |-> Num(0), interpolate |-> "default"],
              [time |-> 2, value |-> Num(2 * Unit), interpolate |-> "default"] >>)

ElementData(element) ==
  IF element = 1
  THEN [x |-> [kind |-> "keyframe", keyframe |-> AnimatedX],
        border |-> [width |-> [kind |-> "function"]]]
  ELSE IF element = 2
  THEN [x |-> [kind |-> "value", value |-> Str("a")],
        border |-> [width |-> [kind |-> "function"]]]
  ELSE [x |-> [kind |-> "function"],
        border |-> [width |-> [kind |-> "value", value |-> Num(Unit)]]]

PropertyPaths == { << "x" >>, << "border", "width" >> }

HasFilter(element, path) == element = 1 /\ path = << "x" >>

\* process.call(element, value)
Process(element, value) ==
  IF TypeOf(value) = "number" THEN Num(2 * value.n) ELSE value

ValTimes == 0..2

\* lines 164-168: the property of the element at the path
RECURSIVE PropertyAt(_, _)
PropertyAt(property, pathParts) ==
  IF Len(pathParts) > 0
  THEN PropertyAt(property[Head(pathParts)], Tail(pathParts))
  ELSE property

\* lines 172-180
PropertyValue(property, element, time) ==
  IF property.kind = "keyframe" THEN Evaluate(property.keyframe, time)
  ELSE IF property.kind = "function" THEN Return(Num(time * Unit))
  ELSE Return(property.value)

\* val(element, path, time): what it returns or throws, the cache it leaves
\* and whether it evaluated the property
Val(cache, element, path, time) ==
  LET movie == MovieOf(element)
  IN IF HasCachedValue(cache, movie, element, path)
     THEN [out |-> Return(GetCachedValue(cache, movie, element, path)),
           cache |-> cache, evaluated |-> FALSE]
     ELSE LET got == PropertyValue(PropertyAt(ElementData(element), path),
                                   element, time)
              value == IF HasFilter(element, path)
                       THEN Process(element, got.value)
                       ELSE got.value
          IN IF got.error # "none"
             THEN [out |-> got, cache |-> cache, evaluated |-> TRUE]
             ELSE [out |-> Return(value),
                   cache |-> CacheValue(cache, movie, element, path, value),
                   evaluated |-> TRUE]

\* Elements' properties are resolved and movies' caches cleared, in any
\* order.  The movie is left as constructed.
Resolve ==
  /\ \E element \in ElementIds, path \in PropertyPaths, time \in ValTimes :
        LET r == Val(valCache, element, path, time)
        IN /\ valCache' = r.cache
           /\ result' = [NoResult EXCEPT !.op = "val",
                                         !.movie = MovieOf(element),
                                         !.element = element,
                                         !.path = path,
                                         !.time = time,
                                         !.evaluated = r.evaluated,
                                         !.out = r.out]
  /\ UNCHANGED << keyframe, movieVars >>

ClearCachedValues ==
  /\ \E movie \in { MovieOf(e) : e \in ElementIds } :
        /\ valCache' = ClearCachedValuesFn(valCache, movie)
        /\ result' = [NoResult EXCEPT !.op = "clearCachedValues",
                                      !.movie = movie]
  /\ UNCHANGED << keyframe, movieVars >>

InitVal == MovieConstructed /\ UtilStart

NextVal == Resolve \/ ClearCachedValues

SpecVal == InitVal /\ [][NextVal]_vars

\* ------------------------------------------- layers resolving properties
\* The movie of one layer [0, 5) played, paused and ticked, with the layer an
\* element of the movie: when _renderLayers calls layer._render() (line 230)
\* the layer resolves its x with val, at the whole seconds of the movie's
\* time that have passed since its start.
LayerTime(s, i) == (s.currentTime - Seconds(s.layers[i].startTime)) \div MsPerSecond

\* The calls of val made by the layers rendered among the first k events of
\* an operation that left the movie as s: the cache they leave and the last
\* of them.
RECURSIVE LayersResolve(_, _, _, _)
LayersResolve(cache, last, s, k) ==
  IF k = 0 THEN [cache |-> cache, last |-> last]
  ELSE LET before == LayersResolve(cache, last, s, k - 1)
           e == s.events[k]
       IN IF e[1] = "render"
          THEN LET r == Val(before.cache, e[2], << "x" >>, LayerTime(s, e[2]))
               IN [cache |-> r.cache,
                   last |-> [NoResult EXCEPT !.op = "val",
                                             !.movie = MovieOf(e[2]),
                                             !.element = e[2],
                                             !.path = << "x" >>,
                                             !.time = LayerTime(s, e[2]),
                                             !.evaluated = r.evaluated,
                                             !.out = r.out]]
          ELSE before

\* An operation of the movie that left it as s, with the layers' calls
Resolving(s) ==
  LET r == LayersResolve(valCache, result, s, Len(s.events))
  IN /\ Assign(s)
     /\ valCache' = r.cache
     /\ result' = r.last
     /\ UNCHANGED keyframe

ResolvingPlay ==
  /\ RoomForCallback
  /\ \E loaded \in MediaAnswers : Resolving(PlayFn(Movie, now, loaded))
  /\ lastOp' = "play"
  /\ UNCHANGED << repeat, firing, now >>

ResolvingTick ==
  /\ firing.tick > 0
  /\ firing' = [firing EXCEPT !.tick = @ - 1]
  /\ \E loaded \in MediaAnswers :
        Resolving(Render(Movie, FALSE, now, now, loaded))
  /\ lastOp' = "tick"
  /\ UNCHANGED << repeat, now >>

NextResolving ==
  \/ ResolvingPlay
  \/ ResolvingTick
  \/ Pause
  \/ TimedClock
  \/ TimedFrame

SpecResolving == InitEndToEnd /\ [][NextResolving]_vars

\* ------------------------------------------------------- a recording run
\* The caller acts on a movie that is not recording; once record() has got
\* past the guard the movie is left to the frame scheduler and the encoder,
\* which delivers its stop event after stop().  A recording starts by
\* ClockEnd, so that the clock covers its timeline.
RecordRunClockEnd == ClockEnd + Seconds(Duration(LayerList))

Idle == mediaRecorder = 0

IdleAddLayer == Idle /\ AddLayer

IdlePause == Idle /\ Pause

IdleClock == Idle /\ AdvanceClock

IdleRecord == Idle /\ now <= ClockEnd /\ Record

RecordFrame == BeginFrameTo(Movie, RecordRunClockEnd)

NextRecordRun ==
  \/ IdleAddLayer
  \/ IdlePause
  \/ IdleClock
  \/ IdleRecord
  \/ RecordFrame
  \/ Tick
  \/ EncoderStop

\* requestAnimationFrame calls what it was given, and the MediaRecorder
\* fires "stop" after stop().
FairRecordRun ==
  /\ WF_vars(RecordFrame)
  /\ WF_vars(Tick)
  /\ WF_vars(EncoderStop)

SpecRecordRun == Init /\ [][NextRecordRun]_vars /\ FairRecordRun

\* ================================================================== claims
Count(seq, e) == Cardinality({ i \in DOMAIN seq : seq[i] = e })

PublishedIn(evs, type) == \E i \in DOMAIN evs : evs[i][1] = type

Published(type) == PublishedIn(events, type)

\* What an operation may change of the movie, the frame scheduler and the
\* encoders.
movieState == << paused, ended, currentTime, lastPlayed, lastPlayedOffset,
                 layers, active, canvas, mediaRecorder, encoders, pending >>

\* C3: pause(), in any state, sets paused, sends a stop notification to every
\* layer whether or not it was active, leaves every layer inactive and leaves
\* currentTime unchanged.
C3_PauseStopsEveryLayer ==
  [][ lastOp' = "pause" =>
        /\ paused'
        /\ layers' = layers
        /\ \A i \in 1..Len(layers) :
              /\ Count(events', <<"stop", i>>) >= 1
              /\ ~active'[i]
        /\ currentTime' = currentTime ]_vars

\* pause() has acted on a movie of two layers
C3_Witness ==
  /\ lastOp = "pause"
  /\ Len(layers) = 2
  /\ paused
  /\ events = << <<"stop", 1>>, <<"stop", 2>> >>
  /\ currentTime > 0

\* C4 as stated: pause() while playing sends one stop notification to each
\* layer that was active and none to a layer that was inactive.
C4_StopsOnlyActiveLayers ==
  [][ (lastOp' = "pause" /\ ~paused) =>
        \A i \in 1..Len(layers) :
           Count(events', <<"stop", i>>) = IF active[i] THEN 1 ELSE 0 ]_vars

\* C4 as amended: pause() while playing sends exactly one stop notification
\* to every layer, active or not, and nothing else.
C4_OneStopPerLayer ==
  [][ (lastOp' = "pause" /\ ~paused) =>
        /\ \A i \in 1..Len(layers) : Count(events', <<"stop", i>>) = 1
        /\ Len(events') = Len(layers) ]_vars

\* pause() has acted on a movie of two layers that was playing: without a
\* recording, _ended is false only in a repeating movie, which nothing but
\* pause() and stop() pauses.
C4_Witness ==
  /\ lastOp = "pause"
  /\ Len(layers) = 2
  /\ repeat
  /\ encoders = <<>>
  /\ Len(events) = 2

\* C5: record() on a movie that is not paused throws and changes nothing: no
\* flag, no time, no surface, no layer, no encoder, no callback, and nothing
\* is published.
C5_RecordWhilePlayingFails ==
  [][ (lastOp' = "record" /\ ~paused) =>
        /\ error' = "Cannot record movie while playing"
        /\ events' = <<>>
        /\ UNCHANGED movieState ]_vars

\* record() was refused on a movie playing its first layer
C5_Witness ==
  /\ lastOp = "record"
  /\ error = "Cannot record movie while playing"
  /\ ~paused
  /\ Len(layers) > 0
  /\ active[1]

\* C10: a callback of play()'s loop that fires while the movie is paused
\* (after pause() or stop(), before the next play()) changes nothing,
\* publishes and draws nothing, and requests no further callback.
C10_PausedTickDoesNothing ==
  [][ (lastOp' = "tick" /\ paused) =>
        /\ events' = <<>>
        /\ error' = "none"
        /\ UNCHANGED movieState ]_vars

\* A callback has fired on a movie that pause() or stop() paused: a repeating
\* movie that never recorded is paused by nothing else.
C10_Witness ==
  /\ lastOp = "tick"
  /\ paused
  /\ repeat
  /\ encoders = <<>>
  /\ Len(layers) > 0
  /\ events = <<>>

\* C2: with repeat set and no recording, a tick that detects the end of the
\* timeline resets currentTime to 0 and requests a further callback, so the
\* loop goes on from time 0.
C2_RepeatKeepsTicking ==
  (lastOp = "tick" /\ Published("end") /\ repeat /\ mediaRecorder = 0)
     => (currentTime = 0 /\ pending.tick >= 1)

\* C6: when a recording ends, by the encoder's stop event or by its error
\* event, the movie draws on the canvas it had before record() again and is
\* no longer recording.  (In Spec one record() gets past the guard, so the
\* canvas before it is the constructor's, 0.)
C6_SurfaceRestored ==
  lastOp \in {"encoderStop", "encoderError"}
     => (canvas = 0 /\ mediaRecorder = 0)

\* C7: record() called while the movie is recording never gets past the
\* guard: it starts no encoder and replaces no canvas.
C7_NoReentrantRecord ==
  [][ (lastOp' = "record" /\ mediaRecorder # 0) =>
        (encoders' = encoders /\ canvas' = canvas) ]_vars

\* C9: an instant render (refresh(), the callback of one that was not fully
\* loaded, the render of a seek) leaves paused, ended and every layer's
\* active flag as they were, publishes no start, stop, end or timeupdate,
\* and, but for the seek that sets it, leaves currentTime as it was.
C9_InstantRenderChangesNothing ==
  [][ lastOp' \in {"refresh", "instantTick", "seek"} =>
        /\ paused' = paused
        /\ ended' = ended
        /\ active' = active
        /\ lastOp' # "seek" => currentTime' = currentTime
        /\ \A type \in {"start", "stop", "end", "timeupdate"} :
              ~PublishedIn(events', type) ]_vars

\* C1: one layer [0, 5), no repeat, one play() from time 0: over the whole
\* run at most one "end" is published; a tick whose computed time has
\* reached 5 publishes it, and no other tick does; once it is published
\* currentTime is 0, the movie is paused and no callback is left with the
\* frame scheduler.
C1_EndToEnd ==
  LET ends == { i \in DOMAIN events : events[i] = Ev("end") }
      reached(i) == /\ i \in DOMAIN events
                    /\ events[i][1] = "timeupdate"
                    /\ events[i][2] >= Seconds(5)
  IN /\ Cardinality(ends) <= 1
     /\ \A i \in DOMAIN events : reached(i) => (i + 1) \in ends
     /\ \A i \in ends : reached(i - 1)
     /\ ends # {} =>
          /\ currentTime = 0
          /\ paused
          /\ pending = NoCallbacks
          /\ firing = NoCallbacks

\* The run has ended: a tick computed a time of 5 or more.
C1_Witness ==
  /\ lastOp = "tick"
  /\ Count(events, Ev("end")) = 1
  /\ \E i \in DOMAIN events : events[i] = <<"timeupdate", Seconds(5)>>
  /\ paused

\* C8: a recording, left to the frame scheduler and the encoder, ends: the
\* tick at the end of the timeline stops the encoder, and then the result is
\* resolved, once, the movie is no longer recording, and it is paused and
\* ended; with repeat set too.
C8_RecordingCompletes ==
  /\ (mediaRecorder # 0) ~>
        (/\ mediaRecorder # 0
         /\ encoders[mediaRecorder].state = "stopping"
         /\ lastOp \in {"record", "tick"}
         /\ Published("end"))
  /\ (mediaRecorder # 0) ~>
        (/\ mediaRecorder = 0
         /\ lastOp = "encoderStop"
         /\ encoders[Len(encoders)].promise = "resolved"
         /\ paused
         /\ ended)
  /\ [](\A k \in 1..Len(encoders) : encoders[k].resolveCalls <= 1)

\* The recording of a repeating movie of two layers has ended.
C8_Witness ==
  /\ lastOp = "encoderStop"
  /\ repeat
  /\ Len(layers) = 2
  /\ mediaRecorder = 0
  /\ encoders[1].promise = "resolved"
  /\ encoders[1].resolveCalls = 1
  /\ paused
  /\ ended

\* C11: the frame scheduler never holds more than one continuation of the
\* render loop (a non-instant tick requested and not yet called), whatever
\* the calls made.
C11_OnePendingTick == pending.tick + firing.tick <= 1

\* C12: a non-instant tick of a movie that is not paused sets currentTime to
\* _lastPlayedOffset plus the time from _lastPlayed to the tick's timestamp
\* and publishes one timeupdate for it (the end of the timeline then resets
\* it to 0 with a timeupdate of its own); play() records the timestamp and
\* the offset it resumes from; while the movie is paused the passing of time
\* and the ticks leave currentTime alone, so play() resumes from the time of
\* the pause.
TimeUpdates(evs) == SelectSeq(evs, LAMBDA e : e[1] = "timeupdate")

C13_ActiveIffInWindow ==
  [][ (lastOp' \in {"tick", "play", "record"} /\ PublishedIn(events', "clearRect")) =>
        \A i \in 1..Len(layers') :
           /\ active'[i] <=>
                /\ Seconds(layers'[i].startTime) <= currentTime'
                /\ currentTime' < Seconds(layers'[i].startTime + layers'[i].duration)
           /\ Count(events', <<"start", i>>) =
                IF ~active[i] /\ active'[i] THEN 1 ELSE 0
           /\ Count(events', <<"stop", i>>) =
                IF active[i] /\ ~active'[i] THEN 1 ELSE 0
    ]_vars

\* A tick at the boundary of two layers: the first is stopped as the second
\* is started.
C13_Witness ==
  /\ lastOp = "tick"
  /\ currentTime = Seconds(1)
  /\ active = << FALSE, TRUE >>
  /\ Count(events, <<"stop", 1>>) = 1
  /\ Count(events, <<"start", 2>>) = 1
  /\ Published("clearRect")

\* C14: a compositing pass clears and fills the background, then renders and
\* draws the layers whose window holds currentTime, in the order of the layer
\* list, then applies the effects in the order of the effect list.
Drawing(evs) ==
  SelectSeq(evs, LAMBDA e : e[1] \in {"clearRect", "fillRect", "render",
                                      "drawImage", "effect"})

RECURSIVE LayerDraws(_, _, _)
LayerDraws(ls, t, i) ==
  IF i = 0 THEN <<>>
  ELSE LayerDraws(ls, t, i - 1) \o
         IF /\ Seconds(ls[i].startTime) <= t
            /\ t < Seconds(ls[i].startTime + ls[i].duration)
         THEN << <<"render", i>> >> \o
                 (IF ls[i].visual THEN << <<"drawImage", i>> >> ELSE <<>>)
         ELSE <<>>

C14_CompositingOrder ==
  Published("clearRect") =>
     Drawing(events) =
        << Ev("clearRect"), Ev("fillRect") >>
          \o LayerDraws(layers, currentTime, Len(layers))
          \o [j \in 1..Len(effects) |-> <<"effect", effects[j]>>]

\* A tick at time 2 draws both layers and applies two effects, added in the
\* order 2, 1.
C14_Witness ==
  /\ lastOp = "tick"
  /\ currentTime = Seconds(2)
  /\ effects = << 2, 1 >>
  /\ Drawing(events) = << Ev("clearRect"), Ev("fillRect"),
                          <<"render", 1>>, <<"drawImage", 1>>,
                          <<"render", 2>>, <<"drawImage", 2>>,
                          <<"effect", 2>>, <<"effect", 1>> >>

\* The samples are sorted by time, equal times included.
SortedSamples ==
  \A i \in 1..(Len(keyframe.value) - 1) :
     keyframe.value[i].time <= keyframe.value[i + 1].time

Evaluated == result.op = "evaluate" /\ Len(keyframe.value) > 0

FirstSample == keyframe.value[1]

LastSample == keyframe.value[Len(keyframe.value)]

\* C17 as stated: with sorted samples, equal times included, evaluate at the
\* first sample's time returns the first sample's value, and evaluate at or
\* after the last sample's time returns the last sample's value.
C17_FirstAndLastValue ==
  (Evaluated /\ SortedSamples) =>
     /\ result.time = FirstSample.time => result.out = Return(FirstSample.value)
     /\ (result.time # NoTime /\ result.time >= LastSample.time) =>
           result.out = Return(LastSample.value)

\* The first two samples can be interpolated at the first: the second is
\* strictly later, the two values are of one kind, objects with the same
\* prototype and properties, and the strategy is linearInterp or cosineInterp.
FirstPairInterpolable ==
  LET a == keyframe.value[1]
      b == keyframe.value[2]
  IN /\ a.time < b.time
     /\ TypeOf(a.value) = TypeOf(b.value)
     /\ a.value.proto = b.value.proto
     /\ DOMAIN a.value.fields = DOMAIN b.value.fields
     /\ a.interpolate \in {"default", "cosineInterp"}

\* C17 amended: with sorted samples, evaluate at or after the last sample's
\* time returns the last sample's value; evaluate at the first sample's time
\* returns the first sample's value when it is the only sample or when the
\* first two samples can be interpolated.
C17_FirstWhenInterpolable ==
  (Evaluated /\ SortedSamples) =>
     /\ (/\ result.time = FirstSample.time
         /\ Len(keyframe.value) > 1 => FirstPairInterpolable)
          => result.out = Return(FirstSample.value)
     /\ (result.time # NoTime /\ result.time >= LastSample.time) =>
           result.out = Return(LastSample.value)

\* evaluate at the first of two samples of different numbers, the second
\* later and eased by cosineInterp, returned the first number.
C17_Witness ==
  /\ Evaluated
  /\ Len(keyframe.value) = 2
  /\ FirstSample.time < LastSample.time
  /\ FirstSample.value = Num(Unit)
  /\ LastSample.value = Num(3 * Unit)
  /\ FirstSample.interpolate = "cosineInterp"
  /\ result.time = FirstSample.time
  /\ result.out = Return(Num(Unit))

\* The samples at i and i + 1 surround the time evaluate was called with.
SurroundingPair(i) ==
  /\ Evaluated
  /\ SortedSamples
  /\ i \in 1..(Len(keyframe.value) - 1)
  /\ result.time # NoTime
  /\ keyframe.value[i].time <= result.time
  /\ result.time < keyframe.value[i + 1].time

\* C18: evaluate fails with the type mismatch error whenever the values of
\* the two samples surrounding the time are of different kinds, whatever the
\* two kinds are.
C18_MismatchFails ==
  \A i \in 1..(Len(keyframe.value) - 1) :
     (/\ SurroundingPair(i)
      /\ TypeOf(keyframe.value[i].value) # TypeOf(keyframe.value[i + 1].value))
       => result.out.error = "Type mismatch in keyframe values"

C20_InterpolationKeys ==
  \A i \in 1..(Len(keyframe.value) - 1) :
     LET x1 == keyframe.value[i].value
         x2 == keyframe.value[i + 1].value
         chosen == IF keyframe.interpolationKeys.defined
                   THEN keyframe.interpolationKeys.keys
                   ELSE DOMAIN x1.fields
     IN (/\ SurroundingPair(i)
         /\ TypeOf(x1) = "object"
         /\ TypeOf(x2) = "object"
         /\ keyframe.value[i].interpolate \in {"default", "cosineInterp"}
         /\ result.out.error = "none")
          => DOMAIN result.out.value.fields =
               { k \in chosen : k \in DOMAIN x1.fields /\ k \in DOMAIN x2.fields }

\* What the property of an element at a path is worth at a time: the
\* elements' "border.width" and element 3's x are the time, element 1's x is
\* twice the time, the others do not change.
WorthAt(element, path, time) ==
  IF element = 1 /\ path = << "x" >> THEN Num(2 * time * Unit)
  ELSE IF element = 2 /\ path = << "x" >> THEN Str("a")
  ELSE IF element = 3 /\ path = << "border", "width" >> THEN Num(Unit)
  ELSE Num(time * Unit)

Cached(cache, element, path) ==
  /\ MovieOf(element) \in DOMAIN cache
  /\ element \in DOMAIN cache[MovieOf(element)]
  /\ path \in DOMAIN cache[MovieOf(element)][element]

\* C15: val returns the value cached for (element, path) when there is one,
\* whatever the time, without evaluating the property and leaving the cache
\* alone; with none cached it evaluates the property at the time given,
\* caches what it returns and returns it; clearCachedValues(movie) leaves
\* nothing cached for the elements of the movie and the other movies' caches
\* alone.  So val returns what the first resolution since the last clear
\* produced.
C15_CachedUntilCleared ==
  [][ /\ result'.op = "val" =>
           LET e == result'.element
               q == result'.path
           IN IF Cached(valCache, e, q)
              THEN /\ result'.out = Return(valCache[MovieOf(e)][e][q])
                   /\ ~result'.evaluated
                   /\ valCache' = valCache
              ELSE /\ result'.out = Return(WorthAt(e, q, result'.time))
                   /\ result'.evaluated
                   /\ Cached(valCache', e, q)
                   /\ valCache'[MovieOf(e)][e][q] = result'.out.value
      /\ result'.op = "clearCachedValues" =>
           /\ \A e \in ElementIds, q \in PropertyPaths :
                 Cached(valCache', e, q) <=>
                    (Cached(valCache, e, q) /\ MovieOf(e) # result'.movie)
           /\ \A e \in ElementIds, q \in PropertyPaths :
                 Cached(valCache', e, q) =>
                    valCache'[MovieOf(e)][e][q] = valCache[MovieOf(e)][e][q]
    ]_vars

\* A second resolution, at another time, returned the value of the first:
\* not what the property is worth at the time given.
C15_Witness ==
  /\ result.op = "val"
  /\ ~result.evaluated
  /\ result.out.value # WorthAt(result.element, result.path, result.time)

\* C16: the render loop clears the movie's cache once in each tick before the
\* first resolution of the tick, so a tick in which a layer is rendered
\* evaluates the layer's property: it is not given a value an earlier tick
\* cached.
C16_TickEvaluates ==
  [][ (lastOp' = "tick" /\ PublishedIn(events', "render")) =>
        /\ result'.op = "val"
        /\ result'.evaluated
    ]_vars

\* C22: the movie is ended only while it is paused.
C22_EndedImpliesPaused == ended => paused

\* C23: a seek to t while the movie is playing takes effect: the next tick
\* computes the time as t plus the time elapsed since the seek (here the
\* tick of the frame in which the seek was made).
C23_SeekTakesEffect ==
  [][ (lastOp = "seek" /\ ~paused /\ lastOp' = "tick") =>
        events'[1] = <<"timeupdate", currentTime + (now' - now)>>
    ]_vars

\* C24: after construction and after every operation other than record(),
\* currentTime is not negative and is before the end of the timeline, or 0.
C24_TimeWithinTimeline ==
  /\ currentTime >= 0
  /\ currentTime < Seconds(Duration(layers)) \/ currentTime = 0

\* A seek to the end of a timeline of one layer was made and left the time
\* at 0.
C24_Witness ==
  /\ lastOp = "seek"
  /\ Len(layers) = 1
  /\ events[1] = Ev("seek")
  /\ Published("end")
  /\ currentTime = 0

\* The call that throws: the _render() of a throwing layer, or a throwing
\* effect.
Throws(e) ==
  \/ e[1] = "render" /\ layers[e[2]].throws
  \/ e[1] = "effect" /\ e[2] \in ThrowingEffects

\* C21: when a layer's render or an effect throws during a tick, the tick
\* ends there with that error thrown to its caller, and requests no frame.
C21_ThrowEndsLoop ==
  [][ (lastOp' = "tick" /\ \E k \in 1..Len(events') : Throws(events'[k])) =>
        LET last == events'[Len(events')]
        IN /\ Throws(last)
           /\ Count(events', last) = 1
           /\ \A k \in 1..(Len(events') - 1) : ~Throws(events'[k])
           /\ error' = (IF last[1] = "render" THEN "LayerError"
                        ELSE "EffectError")
           /\ pending' = pending
    ]_vars

\* A tick of a playing movie has rendered the first layer and then the
\* throwing one; no callback is left and the movie is still not paused.
C21_Witness ==
  /\ lastOp = "tick"
  /\ error = "LayerError"
  /\ ~paused
  /\ Count(events, <<"drawImage", 1>>) = 1
  /\ pending = NoCallbacks
  /\ firing = NoCallbacks

====
